---------------------------- MODULE Spec2Model ----------------------------
(***************************************************************************)
(* A model of prepMaster's correlation / analytics engine                  *)
(* (src/analysis/matcher.py): run_comprehensive_analysis and the helpers   *)
(* it calls.                                                               *)
(*                                                                         *)
(* Conventions.                                                            *)
(*  - Times are integers in microseconds (Second = 10^6), so that the      *)
(*    thresholds 0.15 s and 0.30 s, the 0.1501 s boundary case and the     *)
(*    1e-6 s duration floor are all exact.                                 *)
(*  - Python floats are modelled as exact rationals [n, d] (d > 0, lowest  *)
(*    terms); round(x, k) is round-half-even on the exact value.           *)
(*  - Texts are strings; split / lower / replace / punctuation stripping   *)
(*    are computed character by character.  The WordNet lemmatizer, the    *)
(*    sentence-embedding model and the pitch estimator are external: the   *)
(*    first is a table over the vocabulary of the inputs, the other two    *)
(*    are inputs of the run.                                               *)
(*  - A Python dict is a function with a domain of strings, a missing key  *)
(*    is a string outside the domain, None is <<>> and a value x of an     *)
(*    optional field is <<x>>.                                             *)
(***************************************************************************)
EXTENDS Integers, Sequences, FiniteSets, TLC

VARIABLES
    pc,              \* position in run_comprehensive_analysis
    exists,          \* which of the four input paths exist (os.path.exists)
    slide_file,      \* content of slide_json_path
    whisper_file,    \* content of whisper_json_path: the "segments" list
    timing_file,     \* content of timing_json_path
    audio,           \* what librosa.load / librosa.pyin give on the audio file,
                     \* and, once recorded in the studio, its total_duration
    semantic_model,  \* the cosine similarities the embedding model gives
    slides,          \* the in-memory slide list, enriched in place
    segments,        \* json.load(whisper)["segments"]
    timings,         \* json.load(timing)
    i,               \* the loop index of "for i, slide in enumerate(slides)"
    output_file,     \* content of output_json_path: <<>> absent, <<report>> present
    writes,          \* number of times output_json_path was opened for writing
    encode_calls,    \* history: <<i, key>> of every semantic_model.encode(candidates)
    locals,          \* history: per slide, <<the loop body's local variables>>
    calls,           \* number of calls of run_comprehensive_analysis made
    wpm_in,          \* the wpm the score calculator is given, <<>> when idle
    wpm_out,         \* <<the WPM sub-score computed for wpm_in>>
    page_index,      \* st.session_state.page_index
    slide_timestamps, \* st.session_state.slide_timestamps
    practice_started, \* st.session_state.practice_started
    analysis_done,   \* st.session_state.analysis_done
    clock,           \* time.time() - st.session_state.start_time_epoch
    recordings,      \* number of recordings handed to run_auto_analysis_stage_1
    heard,           \* history: the segments transcribed from the last recording
    all_words,       \* the words run_whisper_analysis collected from the transcriber
    returned         \* <<what run_whisper_analysis made of all_words>>

(* the state outside run_comprehensive_analysis *)
studio == <<page_index, slide_timestamps, practice_started, analysis_done,
            clock, recordings, heard>>

transcriber == <<all_words, returned>>

outside == <<calls, wpm_in, wpm_out, studio, transcriber>>

vars == <<pc, exists, slide_file, whisper_file, timing_file, audio,
          semantic_model, slides, segments, timings, i, output_file, writes,
          encode_calls, locals, outside>>

-----------------------------------------------------------------------------
(* Bounds of the model *)

MaxSlides == 2

MaxSegs == 2

(* run_comprehensive_analysis is called up to MaxCalls times on the same files *)
MaxCalls == 2

(* the WPM sub-score is computed for 0, 0.5, 1, ... up to MaxHalfWpm / 2 *)
MaxHalfWpm == 480

(* the session clock is read at 0, TickLen, ..., MaxTicks * TickLen *)
MaxTicks == 2

(* Next records a timestamp while fewer than MaxStamps are recorded *)
MaxStamps == 3

(* up to MaxRecordings recordings are analysed *)
MaxRecordings == 2

(* the transcriber gives up to MaxWords words *)
MaxWords == 3

-----------------------------------------------------------------------------
(* Exact arithmetic *)

Second == 1000 * 1000

Abs(x) == IF x < 0 THEN -x ELSE x

RECURSIVE GCD(_, _)
GCD(a, b) == IF b = 0 THEN a ELSE GCD(b, a % b)

Rat(n, d) ==
    LET s == IF d < 0 THEN -1 ELSE 1
        g == GCD(Abs(n), Abs(d))
    IN  [n |-> (s * n) \div g, d |-> (s * d) \div g]

Whole(k) == [n |-> k, d |-> 1]

RAdd(a, b) ==
    LET g == GCD(a.d, b.d)
    IN  Rat(a.n * (b.d \div g) + b.n * (a.d \div g), a.d * (b.d \div g))

RNeg(a) == [n |-> -a.n, d |-> a.d]

RSub(a, b) == RAdd(a, RNeg(b))

RMul(a, b) ==
    LET g1 == GCD(Abs(a.n), b.d)
        g2 == GCD(Abs(b.n), a.d)
    IN  Rat((a.n \div g1) * (b.n \div g2), (a.d \div g2) * (b.d \div g1))

RDiv(a, b) == RMul(a, Rat(b.d, b.n))

RLe(a, b) == RSub(a, b).n <= 0

RLt(a, b) == RSub(a, b).n < 0

RMax(a, b) == IF RLe(a, b) THEN b ELSE a

RMin(a, b) == IF RLe(a, b) THEN a ELSE b

RAbs(a) == [n |-> Abs(a.n), d |-> a.d]

(* round-half-even of the rational a to an integer *)
RoundInt(a) ==
    LET fl == a.n \div a.d
        r2 == 2 * (a.n - fl * a.d)
    IN  IF r2 < a.d THEN fl
        ELSE IF r2 > a.d THEN fl + 1
        ELSE IF fl % 2 = 0 THEN fl ELSE fl + 1

(* Python's round(x, 1) and round(x, 2): the whole part is kept apart, the
   fractional part is rounded (the parity of the last digit is the same) *)
Floor(a) == a.n \div a.d

Frac(a) == Rat(a.n - Floor(a) * a.d, a.d)

Round1(a) == RAdd(Whole(Floor(a)), Rat(RoundInt(RMul(Frac(a), Whole(10))), 10))

Round2(a) == RAdd(Whole(Floor(a)), Rat(RoundInt(RMul(Frac(a), Whole(100))), 100))

(* num / den seconds in microseconds, for a den that divides 10^6 *)
T(num, den) == num * (Second \div den)

(* a duration in microseconds as a number of seconds *)
Secs(us) == Rat(us, Second)

-----------------------------------------------------------------------------
(* Python str and dict operations *)

Char(s, k) == SubSeq(s, k, k)

LowerChar(c) ==
    CASE c = "A" -> "a" [] c = "B" -> "b" [] c = "C" -> "c" [] c = "D" -> "d"
      [] c = "E" -> "e" [] c = "F" -> "f" [] c = "G" -> "g" [] c = "H" -> "h"
      [] c = "I" -> "i" [] c = "J" -> "j" [] c = "K" -> "k" [] c = "L" -> "l"
      [] c = "M" -> "m" [] c = "N" -> "n" [] c = "O" -> "o" [] c = "P" -> "p"
      [] c = "Q" -> "q" [] c = "R" -> "r" [] c = "S" -> "s" [] c = "T" -> "t"
      [] c = "U" -> "u" [] c = "V" -> "v" [] c = "W" -> "w" [] c = "X" -> "x"
      [] c = "Y" -> "y" [] c = "Z" -> "z" [] OTHER -> c

(* The character-wise operations split the string in halves, which keeps
   the depth of the recursion logarithmic in its length. *)
Left(s) == SubSeq(s, 1, Len(s) \div 2)

Right(s) == SubSeq(s, Len(s) \div 2 + 1, Len(s))

RECURSIVE Lower(_)
Lower(s) ==
    IF Len(s) = 0 THEN ""
    ELSE IF Len(s) = 1 THEN LowerChar(s)
    ELSE Lower(Left(s)) \o Lower(Right(s))

(* s.replace(c, "") for a one-character c *)
RECURSIVE Remove(_, _)
Remove(s, c) ==
    IF Len(s) = 0 THEN ""
    ELSE IF Len(s) = 1 THEN (IF s = c THEN "" ELSE s)
    ELSE Remove(Left(s), c) \o Remove(Right(s), c)

(* string.punctuation, less the backquote, which no input contains *)
Punctuation ==
    {"!", "\"", "#", "$", "%", "&", "'", "(", ")", "*", "+", ",", "-", ".",
     "/", ":", ";", "<", "=", ">", "?", "@", "[", "\\", "]", "^", "_",
     "{", "|", "}", "~"}

(* text.translate(str.maketrans("", "", string.punctuation)) *)
RECURSIVE StripPunctuation(_)
StripPunctuation(s) ==
    IF Len(s) = 0 THEN ""
    ELSE IF Len(s) = 1 THEN (IF s \in Punctuation THEN "" ELSE s)
    ELSE StripPunctuation(Left(s)) \o StripPunctuation(Right(s))

(* str.split(): the maximal runs of non-blank characters, in order *)
WordStarts(s) ==
    {k \in 1..Len(s) : Char(s, k) # " " /\ (k = 1 \/ Char(s, k - 1) = " ")}

WordEnds(s) ==
    {k \in 1..Len(s) : Char(s, k) # " " /\ (k = Len(s) \/ Char(s, k + 1) = " ")}

(* the j-th smallest element of a set of numbers *)
Nth(set, j) == CHOOSE k \in set : Cardinality({m \in set : m < k}) = j - 1

Split(s) ==
    LET starts == WordStarts(s)
        ends   == WordEnds(s)
    IN  [j \in 1..Cardinality(starts) |-> SubSeq(s, Nth(starts, j), Nth(ends, j))]

(* needle in hay *)
Contains(hay, needle) ==
    \E k \in 1..(Len(hay) - Len(needle) + 1) :
        SubSeq(hay, k, k + Len(needle) - 1) = needle

(* " ".join(parts) *)
RECURSIVE Join(_)
Join(parts) ==
    IF Len(parts) = 0 THEN ""
    ELSE IF Len(parts) = 1 THEN parts[1]
    ELSE Join(Left(parts)) \o " " \o Join(Right(parts))

(* d.get(k, default) *)
Get(d, k, default) == IF k \in DOMAIN d THEN d[k] ELSE default

(* d[k] = v *)
Put(d, k, v) == [f \in DOMAIN d \cup {k} |-> IF f = k THEN v ELSE d[f]]

(* the concatenation of a sequence of sequences: list.extend in a loop *)
RECURSIVE Flatten(_)
Flatten(ss) == IF ss = <<>> THEN <<>> ELSE Head(ss) \o Flatten(Tail(ss))

Range(s) == {s[k] : k \in DOMAIN s}

-----------------------------------------------------------------------------
(* CONFIG and the thresholds of matcher.py *)

WEAK_THR == Rat(15, 100)

weight_content == Rat(3, 10)

weight_fluency == Rat(4, 10)

weight_tone == Rat(3, 10)

ideal_wpm_low == Whole(130)

ideal_wpm_high == Whole(160)

(* 0.15 s, the least overlap of a collected segment is above it *)
OVERLAP_THRESHOLD == T(15, 100)

(* 0.97 *)
NO_SPEECH_PROB_MAX == Rat(97, 100)

(* 0.30 s *)
HAS_SPEECH_THRESHOLD == T(30, 100)

(* max(1e-6, x) for a duration x in microseconds *)
FloorDuration(x) == IF x > 1 THEN x ELSE 1

Min(a, b) == IF a <= b THEN a ELSE b

Max(a, b) == IF a >= b THEN a ELSE b

-----------------------------------------------------------------------------
(* _clean_and_lemmatize *)

(* WordNetLemmatizer.lemmatize(w, pos="n") on the words of the inputs *)
LemmaN(w) ==
    CASE w = "plants" -> "plant"
      [] OTHER -> w

(* WordNetLemmatizer.lemmatize(w, pos="v") on the words of the inputs *)
LemmaV(w) ==
    CASE w = "making" -> "make"
      [] w = "plants" -> "plant"
      [] w = "matters" -> "matter"
      [] OTHER -> w

clean_and_lemmatize(text) ==
    IF text = "" THEN {}
    ELSE LET words == Split(StripPunctuation(Lower(text)))
         IN  UNION {{LemmaN(w), LemmaV(w), w} : w \in Range(words)}

-----------------------------------------------------------------------------
(* _calculate_pitch_variability.  aud is what the audio library does on
   the window: raises (librosa.load or librosa.pyin raises), none (pyin
   gives None), valid (the number of non-NaN pitch estimates) and std
   (np.std of them).  An optional fails_from is the offset from which on
   the library raises, for an audio file shorter than the timing windows. *)

(* librosa.load or librosa.pyin raises on the window that starts at start_t *)
library_raises(aud, start_t) ==
    \/ aud.raises
    \/ "fails_from" \in DOMAIN aud /\ start_t >= aud.fails_from

(* lines 77-95, the body of the try: exc says that it ended with an
   exception, loaded that librosa.load was called *)
pitch_try(aud, start_t, end_t) ==
    IF end_t <= start_t
    THEN [exc |-> FALSE, loaded |-> FALSE, value |-> Whole(0)]
    ELSE IF library_raises(aud, start_t)
    THEN [exc |-> TRUE, loaded |-> TRUE, value |-> Whole(0)]
    ELSE IF aud.none
    THEN [exc |-> FALSE, loaded |-> TRUE, value |-> Whole(0)]
    ELSE IF aud.valid > 1
    THEN [exc |-> FALSE, loaded |-> TRUE, value |-> Round2(aud.std)]
    ELSE [exc |-> FALSE, loaded |-> TRUE, value |-> Whole(0)]

(* an except clause that lets the exception through *)
except_Exception_reraise(r) == r

(* lines 96-98, except Exception: the exception ends here, 0.0 is returned *)
except_Exception(r) ==
    IF r.exc
    THEN [exc |-> FALSE, loaded |-> r.loaded, value |-> Whole(0)]
    ELSE r

(* the call as its caller sees it: exc says that an exception came out *)
pitch_call(aud, start_t, end_t) == except_Exception(pitch_try(aud, start_t, end_t))

calculate_pitch_variability(aud, start_t, end_t) ==
    pitch_call(aud, start_t, end_t).value

-----------------------------------------------------------------------------
(* _calculate_overall_score *)

(* wpm_score without the floor at 0 *)
wpm_score_unfloored(wpm) ==
    IF RLe(ideal_wpm_low, wpm) /\ RLe(wpm, ideal_wpm_high) THEN Whole(100)
    ELSE LET dist == RMin(RAbs(RSub(wpm, ideal_wpm_low)),
                          RAbs(RSub(wpm, ideal_wpm_high)))
         IN  RSub(Whole(100), RMul(dist, Rat(3, 2)))

(* wpm_score with a decay of 1.0 per word per minute *)
wpm_score_slow_decay(wpm) ==
    IF RLe(ideal_wpm_low, wpm) /\ RLe(wpm, ideal_wpm_high) THEN Whole(100)
    ELSE LET dist == RMin(RAbs(RSub(wpm, ideal_wpm_low)),
                          RAbs(RSub(wpm, ideal_wpm_high)))
         IN  RMax(Whole(0), RSub(Whole(100), dist))

wpm_score(wpm) ==
    IF RLe(ideal_wpm_low, wpm) /\ RLe(wpm, ideal_wpm_high) THEN Whole(100)
    ELSE LET dist == RMin(RAbs(RSub(wpm, ideal_wpm_low)),
                          RAbs(RSub(wpm, ideal_wpm_high)))
         IN  RMax(Whole(0), RSub(Whole(100), RMul(dist, Rat(3, 2))))

(* score_fluency without the floor at 0 *)
score_fluency_unfloored(wpm, mumble_rate, filler_count, duration) ==
    RMul(RSub(RSub(wpm_score(wpm), RMul(mumble_rate, Whole(2))),
              RMul(RMul(RDiv(Whole(filler_count), duration), Whole(60)), Whole(5))),
         weight_fluency)

score_fluency(wpm, mumble_rate, filler_count, duration) ==
    LET mumble_penalty == RMul(mumble_rate, Whole(2))
        fpm            == RMul(RDiv(Whole(filler_count), duration), Whole(60))
        filler_penalty == RMul(fpm, Whole(5))
    IN  RMul(RMax(Whole(0),
                  RSub(RSub(wpm_score(wpm), mumble_penalty), filler_penalty)),
             weight_fluency)

score_tone(pitch_var) ==
    RMul(RMin(Whole(100), RMul(RDiv(pitch_var, Whole(15)), Whole(100))),
         weight_tone)

calculate_overall_score(content_score, wpm, mumble_rate, filler_count, pitch_var, duration, has_text) ==
    IF ~has_text \/ RLe(duration, Whole(0)) THEN Whole(0)
    ELSE Round1(RAdd(RAdd(RMul(content_score, weight_content),
                          score_fluency(wpm, mumble_rate, filler_count, duration)),
                     score_tone(pitch_var)))

-----------------------------------------------------------------------------
(* run_comprehensive_analysis, B: segment collection *)

SegStart(seg) == Get(seg, "voice_start", Get(seg, "start", 0))

SegEnd(seg) == Get(seg, "voice_end", Get(seg, "end", 0))

(* Overlap as a distance: the sign of the difference is dropped *)
Overlap_unsigned(start_t, end_t, seg) ==
    Abs(Min(end_t, SegEnd(seg)) - Max(start_t, SegStart(seg)))

Overlap(start_t, end_t, seg) ==
    Min(end_t, SegEnd(seg)) - Max(start_t, SegStart(seg))

(* IsCollected with an overlap of exactly 0.15 s collected *)
IsCollected_inclusive(start_t, end_t, seg) ==
    /\ Overlap(start_t, end_t, seg) >= OVERLAP_THRESHOLD
    /\ ~RLt(NO_SPEECH_PROB_MAX, Get(seg, "no_speech_prob", Whole(0)))

(* the segments for which the loop reaches "matched_segments.append(seg)" *)
IsCollected(start_t, end_t, seg) ==
    /\ Overlap(start_t, end_t, seg) > OVERLAP_THRESHOLD
    /\ ~RLt(NO_SPEECH_PROB_MAX, Get(seg, "no_speech_prob", Whole(0)))

matched_segments(start_t, end_t, segs) ==
    SelectSeq(segs, LAMBDA seg : IsCollected(start_t, end_t, seg))

page_texts(ms) == [k \in DOMAIN ms |-> Get(ms[k], "text", "")]

RECURSIVE total_words(_)
total_words(ms) ==
    IF ms = <<>> THEN 0
    ELSE Len(Split(Get(Head(ms), "text", ""))) + total_words(Tail(ms))

mumbled(ms) == Flatten([k \in DOMAIN ms |-> Get(ms[k], "mumbled_words", <<>>)])

fillers(ms) == Flatten([k \in DOMAIN ms |-> Get(ms[k], "filler_words", <<>>)])

full_text(ms) == Join(SelectSeq(page_texts(ms), LAMBDA t : t # ""))

(* C: user_embeddings is not None.  sentences is non-empty exactly when
   full_text is (sent_tokenize, then the [full_text] fallback). *)
has_user_embeddings(text) == text # ""

(* D: statistics.mean(page_logprobs); confidence_score is
   exp(mean) * 100, kept as the mean it is the exponential of *)
RECURSIVE SumRat(_)
SumRat(rs) == IF rs = <<>> THEN Whole(0) ELSE RAdd(Head(rs), SumRat(Tail(rs)))

mean_logprob(ms) ==
    RDiv(SumRat([k \in DOMAIN ms |-> Get(ms[k], "avg_logprob", Whole(-1))]),
         Whole(Len(ms)))

(* exp(mean) * 100 >= 60, i.e. mean >= ln 0.6 = -0.510825... *)
confidence_level(ms) ==
    IF ms # <<>> /\ RLe(Rat(-510825, 1000000), mean_logprob(ms))
    THEN "High" ELSE "Low"

-----------------------------------------------------------------------------------------------------------------------------------------------------
(* E: keyword matching.  keywords_map is the dict keywords_expanded in its
   iteration order: a sequence of [key, synonyms].  spoken is
   _clean_and_lemmatize(full_text), cstr is clean_str and embedded says
   that user_embeddings is not None. *)

keywords_map(slide) == Get(slide, "keywords_expanded", <<>>)

normalized(synonyms) ==
    UNION {clean_and_lemmatize(syn) : syn \in Range(synonyms)}

clean_str(text) == Lower(Remove(text, " "))

(* Level 1: exact / lemma *)
Level1(entry, spoken) == normalized(entry.synonyms) \cap spoken # {}

(* Level 2: substring *)
Level2(entry, cstr) ==
    \E syn \in Range(entry.synonyms) : Contains(cstr, Lower(Remove(syn, " ")))

(* torch.max(util.cos_sim(key_emb, user_embeddings)) >= WEAK_THR *)
Level3(model, entry) == RLe(WEAK_THR, model[entry.key])

(* Level 3 entered whenever there are embeddings, matched or not *)
Level3Entered_always(level1, level2, embedded) == embedded

(* Level 3 is entered: "if not is_match and user_embeddings is not None" *)
Level3Entered(level1, level2, embedded) == ~level1 /\ ~level2 /\ embedded

(* one pass of the loop over keywords_map.items(): the tier that matched
   the concept (0: none) and whether the semantic tier encoded its
   candidates *)
match_entry(model, entry, spoken, cstr, embedded) ==
    LET level1  == Level1(entry, spoken)
        level2  == ~level1 /\ Level2(entry, cstr)
        entered == Level3Entered(level1, level2, embedded)
        level3  == entered /\ Level3(model, entry)
    IN  [key     |-> entry.key,
         tier    |-> IF level1 THEN 1 ELSE IF level2 THEN 2
                     ELSE IF level3 THEN 3 ELSE 0,
         encoded |-> entered]

match_all(model, km, spoken, cstr, embedded) ==
    [k \in DOMAIN km |-> match_entry(model, km[k], spoken, cstr, embedded)]

Keys(entries) == [k \in DOMAIN entries |-> entries[k].key]

covered(matches) == Keys(SelectSeq(matches, LAMBDA m : m.tier # 0))

(* missed with the keys the semantic tier matched left in *)
missed_unless_literal(matches) ==
    Keys(SelectSeq(matches, LAMBDA m : m.tier \notin {1, 2}))

missed(matches) == Keys(SelectSeq(matches, LAMBDA m : m.tier = 0))

(* the keys for which the semantic tier encodes the candidates *)
semantic_calls(matches) == {m.key : m \in {x \in Range(matches) : x.encoded}}

-----
(* F: scores and metrics *)

(* content_score with 0.0 for a slide without keywords *)
content_score_zero_default(n_covered, total) ==
    IF total > 0 THEN Rat(n_covered * 100, total) ELSE Whole(0)

content_score(n_covered, total) ==
    IF total > 0 THEN Rat(n_covered * 100, total) ELSE Whole(100)

(* overlap_speech with the no-speech filter of the segment collection *)
RECURSIVE overlap_speech_filtered(_, _, _)
overlap_speech_filtered(start_t, end_t, segs) ==
    IF segs = <<>> THEN 0
    ELSE (IF /\ Overlap(start_t, end_t, Head(segs)) > 0
             /\ ~RLt(NO_SPEECH_PROB_MAX,
                     Get(Head(segs), "no_speech_prob", Whole(0)))
          THEN Overlap(start_t, end_t, Head(segs)) ELSE 0)
         + overlap_speech_filtered(start_t, end_t, Tail(segs))

RECURSIVE overlap_speech(_, _, _)
overlap_speech(start_t, end_t, segs) ==
    IF segs = <<>> THEN 0
    ELSE (IF Overlap(start_t, end_t, Head(segs)) > 0
          THEN Overlap(start_t, end_t, Head(segs)) ELSE 0)
         + overlap_speech(start_t, end_t, Tail(segs))

(* content_status with speech of exactly 0.30 s counted as speech *)
content_status_inclusive(ms, speech) ==
    IF ms # <<>> THEN "OK"
    ELSE IF speech >= HAS_SPEECH_THRESHOLD THEN "Speech Not Captured"
    ELSE "No Speech Detected"

(* the three cases of lines 291-320 *)
content_status(ms, speech) ==
    IF ms # <<>> THEN "OK"
    ELSE IF speech > HAS_SPEECH_THRESHOLD THEN "Speech Not Captured"
    ELSE "No Speech Detected"

(* duration of Case 1: from the first matched segment to the last *)
speech_duration(ms, start_t, end_t) ==
    LET first      == ms[1]
        last       == ms[Len(ms)]
        real_start == Get(first, "voice_start", Get(first, "start", start_t))
        real_end   == Get(last, "voice_end", Get(last, "end", end_t))
    IN  FloorDuration(real_end - real_start)

wpm(ms, start_t, end_t) ==
    IF ms # <<>> /\ total_words(ms) > 0
    THEN Rat(total_words(ms) * 60 * Second, speech_duration(ms, start_t, end_t))
    ELSE Whole(0)

mumble_rate(ms) ==
    IF ms # <<>> /\ total_words(ms) > 0
    THEN Rat(Len(mumbled(ms)) * 100, total_words(ms))
    ELSE Whole(0)

(* pitch_var forced to 0.0 in Case 2 as well *)
pitch_var_matched_only(aud, start_t, end_t, status) ==
    IF status # "OK" THEN Whole(0)
    ELSE calculate_pitch_variability(aud, start_t, end_t)

(* pitch_var after the three cases: forced to 0.0 in Case 3 *)
pitch_var(aud, start_t, end_t, status) ==
    IF status = "No Speech Detected" THEN Whole(0)
    ELSE calculate_pitch_variability(aud, start_t, end_t)

(* tone_status decided by the pitch alone when it is high *)
tone_status_pitch_first(pv, speech) ==
    IF RLt(Whole(12), pv) THEN "Dynamic"
    ELSE IF speech > HAS_SPEECH_THRESHOLD THEN "Monotone"
    ELSE "Unknown"

tone_status(pv, speech) ==
    IF RLt(Whole(12), pv) /\ speech > HAS_SPEECH_THRESHOLD THEN "Dynamic"
    ELSE IF speech > HAS_SPEECH_THRESHOLD THEN "Monotone"
    ELSE "Unknown"

metrics_status(overall, has_text, mrate, status) ==
    IF RLe(Whole(85), overall) THEN "Excellent"
    ELSE IF has_text /\ RLe(mrate, Whole(20)) THEN "Pass"
    ELSE IF has_text THEN "Unclear Speech"
    ELSE status

-----------------------------------------------------------------------------
(* The body of the loop over the slides *)

(* A: the window of a timing entry, end_t clamped to start_t *)
window_start(timing) == timing.start_time

(* window_end without the clamp *)
window_end_unclamped(timing) == timing.end_time

window_end(timing) ==
    IF timing.end_time < timing.start_time THEN timing.start_time
    ELSE timing.end_time

NoTimingData == [error |-> "No timing data"]

(* mark_untimed without the marker in metrics *)
mark_untimed_no_metrics(slide) ==
    Put(Put(Put(Put(slide,
        "start_time", <<>>),
        "end_time", <<>>),
        "content_analysis", NoTimingData),
        "tone_analysis", NoTimingData)

(* the else branch of A: no timing entry for this slide *)
mark_untimed(slide) ==
    Put(Put(Put(Put(Put(slide,
        "start_time", <<>>),
        "end_time", <<>>),
        "content_analysis", NoTimingData),
        "tone_analysis", NoTimingData),
        "metrics", NoTimingData)

(* the local variables of the loop body when it reaches line 329, for a
   slide with a timing entry *)
loop_locals(slide, timing, segs, aud, model) ==
    LET start_t  == window_start(timing)
        end_t    == window_end(timing)
        ms       == matched_segments(start_t, end_t, segs)
        text     == full_text(ms)
        embedded == has_user_embeddings(text)
        spoken   == clean_and_lemmatize(text)
        cstr     == clean_str(text)
        km       == keywords_map(slide)
        matches  == match_all(model, km, spoken, cstr, embedded)
        cov      == covered(matches)
        cscore   == content_score(Len(cov), Len(km))
        speech   == overlap_speech(start_t, end_t, segs)
        status   == content_status(ms, speech)
        pv       == pitch_var(aud, start_t, end_t, status)
        rate     == wpm(ms, start_t, end_t)
        mrate    == mumble_rate(ms)
        fill     == fillers(ms)
        duration == Secs(FloorDuration(end_t - start_t))
    IN  [start_t          |-> start_t,
         end_t            |-> end_t,
         matched_segments |-> ms,
         full_text        |-> text,
         keywords_map     |-> km,
         covered          |-> cov,
         missed           |-> missed(matches),
         matches          |-> matches,
         encoded          |-> semantic_calls(matches),
         content_score    |-> cscore,
         overlap_speech   |-> speech,
         content_status   |-> status,
         pitch_var        |-> pv,
         wpm              |-> rate,
         mumble_rate      |-> mrate,
         fillers          |-> fill,
         has_text         |-> ms # <<>>,
         duration         |-> duration,
         total_overall    |-> calculate_overall_score(cscore, rate, mrate,
                                  Len(fill), pv, duration, ms # <<>>)]

(* lines 332-341 *)
content_analysis(L) ==
    [score              |-> IF L.has_text THEN Round1(L.content_score) ELSE Whole(0),
     covered_keywords   |-> IF L.has_text THEN L.covered ELSE <<>>,
     missed_keywords    |-> IF L.has_text THEN L.missed ELSE <<>>,
     filler_count       |-> Len(L.fillers),
     transcript_extract |-> IF L.has_text THEN L.full_text ELSE "",
     \* <<m>> stands for round(exp(m) * 100, 1), <<>> for 0.0
     confidence_score   |-> IF L.has_text
                            THEN <<mean_logprob(L.matched_segments)>> ELSE <<>>,
     confidence_level   |-> IF L.has_text
                            THEN confidence_level(L.matched_segments) ELSE "None",
     status             |-> L.content_status]

(* lines 344-355 *)
tone_analysis(L) ==
    [pitch_variability |-> L.pitch_var,
     status            |-> tone_status(L.pitch_var, L.overlap_speech)]

(* lines 357-366 *)
metrics(L) ==
    [wpm            |-> Round1(L.wpm),
     mumble_rate    |-> Round1(L.mumble_rate),
     filler_rate_pm |-> Round1(RMul(RDiv(Whole(Len(L.fillers)), L.duration),
                                    Whole(60))),
     status         |-> metrics_status(L.total_overall, L.has_text,
                                       L.mumble_rate, L.content_status)]

(* enrich building a new record from page_index and the results *)
enrich_rebuilt(slide, L) ==
    [page_index       |-> slide.page_index,
     start_time       |-> <<L.start_t>>,
     end_time         |-> <<L.end_t>>,
     overall_score    |-> L.total_overall,
     content_analysis |-> content_analysis(L),
     tone_analysis    |-> tone_analysis(L),
     metrics          |-> metrics(L)]

(* the slide after one pass of the loop body with a timing entry *)
enrich(slide, L) ==
    Put(Put(Put(Put(Put(Put(slide,
        "start_time", <<L.start_t>>),
        "end_time", <<L.end_t>>),
        "overall_score", L.total_overall),
        "content_analysis", content_analysis(L)),
        "tone_analysis", tone_analysis(L)),
        "metrics", metrics(L))

analyse(slide, timing, segs, aud, model) ==
    enrich(slide, loop_locals(slide, timing, segs, aud, model))

-----
(* The inputs of a run *)

Files == {"slides", "whisper", "timing", "audio"}

ConceptKeys == {"photosynthesis", "chlorophyll", "photo"}

SlidePhoto ==
    [page_index |-> 0,
     slide_text |-> "Photosynthesis",
     keywords_expanded |->
        << [key |-> "photosynthesis",
            synonyms |-> <<"photosynthesis", "making energy from light">>] >>]

SlideTwo ==
    [page_index |-> 1,
     slide_text |-> "Chlorophyll",
     keywords_expanded |->
        << [key |-> "chlorophyll", synonyms |-> <<"Chlorophyll", "leaf colour">>],
           [key |-> "photo", synonyms |-> <<"photo">>] >>]

SlideNoKeywords == [page_index |-> 2, slide_text |-> "Thanks"]

SlideEmptyKeywords ==
    [page_index |-> 3, slide_text |-> "Questions", keywords_expanded |-> <<>>]

DeckCycle == <<SlidePhoto, SlideTwo, SlideNoKeywords, SlideEmptyKeywords>>

(* n elements of the cycle, from its element r + 1 on *)
Rotation(cycle, r, n) ==
    [k \in 1..n |-> cycle[((r + k - 1) % Len(cycle)) + 1]]

Decks ==
    {Rotation(DeckCycle, r, n) : r \in 0..(Len(DeckCycle) - 1), n \in 0..MaxSlides}

WindowCycle ==
    << [page_index |-> 0, start_time |-> 0, end_time |-> 10 * Second],
       [page_index |-> 1, start_time |-> 10 * Second, end_time |-> 20 * Second],
       [page_index |-> 2, start_time |-> 20 * Second, end_time |-> 15 * Second] >>

TimingFiles ==
    {Rotation(WindowCycle, r, n) : r \in 0..(Len(WindowCycle) - 1), n \in 0..MaxSlides}

SegTalk ==
    [voice_start |-> 1 * Second, voice_end |-> 9 * Second,
     text |-> "Today we explain how green plants make energy from light",
     avg_logprob |-> Rat(-3, 10), no_speech_prob |-> Rat(1, 100),
     mumbled_words |-> <<>>, filler_words |-> <<>>]

(* near-certain silence: exactly 0.30 s inside the first window *)
SegNoise ==
    [start |-> 0, end |-> T(30, 100), text |-> "hm",
     no_speech_prob |-> Rat(98, 100)]

(* exactly 0.15 s inside the first window *)
SegShortA ==
    [voice_start |-> 0, voice_end |-> T(15, 100),
     text |-> "light"]

(* near-certain silence: 0.5 s inside the second window *)
SegHiss ==
    [start |-> 12 * Second, end |-> T(125, 10), text |-> "sh",
     no_speech_prob |-> Rat(98, 100),
     filler_words |-> << [word |-> "uh", start |-> 12 * Second] >>]

SegFillers ==
    [voice_start |-> 6 * Second, voice_end |-> 8 * Second,
     text |-> "um the green pigment like",
     avg_logprob |-> Rat(-12, 10),
     mumbled_words |-> << [word |-> "pigment", conf |-> Rat(41, 100),
                           start |-> 7 * Second] >>,
     filler_words |-> << [word |-> "um", start |-> 6 * Second],
                         [word |-> "like", start |-> T(79, 10)] >>]

(* no text, and out of time order after SegFillers *)
SegEmpty == [start |-> 5 * Second, end |-> 6 * Second, text |-> ""]

(* overlaps the first window by 0.5 s, the second by 0.1501 s *)
SegEdge ==
    [voice_start |-> T(95, 10),
     voice_end |-> T(101501, 10000),
     text |-> "um photosynthesis.",
     filler_words |-> << [word |-> "um", start |-> T(95, 10)] >>]

SegmentPool ==
    <<SegTalk, SegNoise, SegShortA, SegHiss, SegFillers, SegEmpty, SegEdge>>

(* the segments of the pool at the positions in picked, in the pool's order *)
Pick(picked) ==
    LET idx == SelectSeq([k \in 1..Len(SegmentPool) |-> k], LAMBDA k : k \in picked)
    IN  [j \in DOMAIN idx |-> SegmentPool[idx[j]]]

Transcripts ==
    {Pick(picked) : picked \in {p \in SUBSET (1..Len(SegmentPool)) :
                                    Cardinality(p) <= MaxSegs}}

AudioOutcomes ==
    { [raises |-> FALSE, none |-> FALSE, valid |-> 40, std |-> Rat(14004, 1000)],
      [raises |-> FALSE, none |-> FALSE, valid |-> 40, std |-> Whole(30)],
      [raises |-> TRUE,  none |-> FALSE, valid |-> 0,  std |-> Whole(0)] }

(* the best cosine similarity the model gives for a concept's candidates *)
SemanticModels ==
    { [key \in ConceptKeys |-> Rat(14, 100)],
      [key \in ConceptKeys |-> Rat(15, 100)] }

(* a report left at output_json_path by an earlier run *)
StaleReport == << [page_index |-> 0, overall_score |-> Whole(50)] >>

-----------------------------------------------------------------------------
(* The run *)

AllExist == [f \in Files |-> TRUE]

(* all_exist without the audio path *)
all_exist_but_audio(e) == \A f \in Files \ {"audio"} : e[f]

(* all(os.path.exists(p) for p in [slides, whisper, timing, audio]) *)
all_exist(e) == \A f \in Files : e[f]

(* the recorder of app.py is not in use *)
StudioIdle ==
    /\ page_index = 0
    /\ slide_timestamps = <<>>
    /\ practice_started = FALSE
    /\ analysis_done = FALSE
    /\ clock = 0
    /\ recordings = 0
    /\ heard = <<>>

(* the re-segmentation of run_whisper_analysis is not being followed *)
WhisperIdle ==
    /\ all_words = <<>>
    /\ returned = <<>>

(* nothing but run_comprehensive_analysis is running *)
OutsideIdle ==
    /\ calls = 1
    /\ wpm_in = <<>>
    /\ wpm_out = <<>>
    /\ StudioIdle
    /\ WhisperIdle

Init ==
    /\ pc = "start"
    /\ \/ /\ exists = AllExist
          /\ slide_file \in Decks
          /\ whisper_file \in Transcripts
          /\ timing_file \in TimingFiles
          /\ audio \in AudioOutcomes
          /\ semantic_model \in SemanticModels
          /\ output_file = <<>>
       \/ /\ exists \in {e \in [Files -> BOOLEAN] : e # AllExist}
          /\ slide_file = <<>>
          /\ whisper_file = <<>>
          /\ timing_file = <<>>
          /\ audio \in {a \in AudioOutcomes : a.raises}
          /\ semantic_model \in {m \in SemanticModels : m["photo"] = WEAK_THR}
          /\ output_file \in {<<>>, <<StaleReport>>}
    /\ slides = <<>>
    /\ segments = <<>>
    /\ timings = <<>>
    /\ i = 0
    /\ writes = 0
    /\ encode_calls = {}
    /\ locals = <<>>
    /\ OutsideIdle

(* lines 141-147: a required input is missing *)
RaiseFileNotFound ==
    /\ pc = "start"
    /\ ~all_exist(exists)
    /\ pc' = "raised"
    /\ UNCHANGED <<exists, slide_file, whisper_file, timing_file, audio,
                   semantic_model, slides, segments, timings, i, output_file,
                   writes, encode_calls, locals>>
    /\ UNCHANGED outside

(* lines 141-156: all inputs exist and are loaded *)
LoadInputs ==
    /\ pc = "start"
    /\ all_exist(exists)
    /\ slides' = slide_file
    /\ segments' = whisper_file
    /\ timings' = timing_file
    /\ i' = 0
    /\ locals' = [k \in DOMAIN slide_file |-> <<>>]
    /\ pc' = "loop"
    /\ UNCHANGED <<exists, slide_file, whisper_file, timing_file, audio,
                   semantic_model, output_file, writes, encode_calls>>
    /\ UNCHANGED outside

(* lines 164-172, 183-373: slide i has a timing entry *)
AnalyseSlide ==
    /\ pc = "loop"
    /\ i < Len(slides)
    /\ i < Len(timings)
    /\ LET L == loop_locals(slides[i + 1], timings[i + 1], segments, audio,
                            semantic_model)
       IN  /\ slides' = [slides EXCEPT ![i + 1] = enrich(slides[i + 1], L)]
           /\ encode_calls' = encode_calls \cup {<<i, key>> : key \in L.encoded}
           /\ locals' = [locals EXCEPT ![i + 1] = <<L>>]
    /\ i' = i + 1
    /\ pc' = IF pitch_call(audio, window_start(timings[i + 1]),
                           window_end(timings[i + 1])).exc
             THEN "raised"
             ELSE pc
    /\ UNCHANGED <<exists, slide_file, whisper_file, timing_file, audio,
                   semantic_model, segments, timings, output_file, writes>>
    /\ UNCHANGED outside

(* lines 173-180: slide i has no timing entry *)
SkipUntimedSlide ==
    /\ pc = "loop"
    /\ i < Len(slides)
    /\ i >= Len(timings)
    /\ slides' = [slides EXCEPT ![i + 1] = mark_untimed(slides[i + 1])]
    /\ i' = i + 1
    /\ UNCHANGED <<pc, exists, slide_file, whisper_file, timing_file, audio,
                   semantic_model, segments, timings, output_file, writes,
                   encode_calls, locals>>
    /\ UNCHANGED outside

(* open(output_json_path, "w") with json.dump added to what the file holds *)
write_report_append(old, report) ==
    IF old = <<>> THEN <<report>> ELSE <<old[1] \o report>>

(* open(output_json_path, "w") and json.dump: the file holds the report only *)
write_report(old, report) == <<report>>

(* lines 375-380: the loop is over, the report is written *)
WriteReport ==
    /\ pc = "loop"
    /\ i = Len(slides)
    /\ output_file' = write_report(output_file, slides)
    /\ writes' = writes + 1
    /\ pc' = "done"
    /\ UNCHANGED <<exists, slide_file, whisper_file, timing_file, audio,
                   semantic_model, slides, segments, timings, i, encode_calls,
                   locals>>
    /\ UNCHANGED outside

Next ==
    \/ RaiseFileNotFound
    \/ LoadInputs
    \/ AnalyseSlide
    \/ SkipUntimedSlide
    \/ WriteReport

Spec == Init /\ [][Next]_vars

-----------------------------------------------------------------------------
(* run_comprehensive_analysis called again on the same files *)

(* the call has returned and the function is called again with the same
   paths: its locals are new, the files and the cached model are kept *)
RunAgain ==
    /\ pc = "done"
    /\ calls < MaxCalls
    /\ calls' = calls + 1
    /\ pc' = "start"
    /\ slides' = <<>> /\ segments' = <<>> /\ timings' = <<>>
    /\ i' = 0 /\ writes' = 0
    /\ encode_calls' = {} /\ locals' = <<>>
    /\ UNCHANGED <<exists, slide_file, whisper_file, timing_file, audio,
                   semantic_model, output_file, wpm_in, wpm_out, studio,
                   transcriber>>

NextTwice ==
    \/ Next
    \/ RunAgain

SpecTwice == Init /\ [][NextTwice]_vars

-----------------------------------------------------------------------------
(* The WPM sub-score of _calculate_overall_score on its own *)

(* run_comprehensive_analysis is not running *)
NoRun ==
    /\ exists = AllExist
    /\ slide_file = <<>> /\ whisper_file = <<>> /\ timing_file = <<>>
    /\ audio \in {a \in AudioOutcomes : a.raises}
    /\ semantic_model \in {m \in SemanticModels : m["photo"] = WEAK_THR}
    /\ slides = <<>> /\ segments = <<>> /\ timings = <<>>
    /\ i = 0 /\ output_file = <<>> /\ writes = 0
    /\ encode_calls = {} /\ locals = <<>>

WpmInputs == {Rat(k, 2) : k \in 0..MaxHalfWpm}

InitWpm ==
    /\ pc = "wpm_score"
    /\ NoRun
    /\ StudioIdle
    /\ WhisperIdle
    /\ calls = 0
    /\ wpm_in \in {<<w>> : w \in WpmInputs}
    /\ wpm_out = <<>>

(* lines 111-117 *)
ScoreWpm ==
    /\ pc = "wpm_score"
    /\ wpm_out = <<>>
    /\ wpm_out' = <<wpm_score(wpm_in[1])>>
    /\ UNCHANGED <<pc, exists, slide_file, whisper_file, timing_file, audio,
                   semantic_model, slides, segments, timings, i, output_file,
                   writes, encode_calls, locals, calls, wpm_in, studio,
                   transcriber>>

SpecWpm == InitWpm /\ [][ScoreWpm]_vars

-----------------------------------------------------------------------------
(* The studio page of app.py: the recorder and run_auto_analysis_stage_1 *)

TickLen == 5 * Second

(* round(x, 2) of a time in microseconds: to the nearest 0.01 s, ties to even *)
round2(us) ==
    LET q == us \div 10000
        r == us % 10000
    IN  IF r > 5000 \/ (r = 5000 /\ q % 2 = 1) THEN (q + 1) * 10000 ELSE q * 10000

(* slides.json as process_pdf_for_pipeline wrote it for the uploaded PDF *)
slides_json ==
    << [page_index |-> 0, slide_text |-> "Photosynthesis"],
       [page_index |-> 1, slide_text |-> "Chlorophyll"],
       [page_index |-> 2, slide_text |-> "Questions"] >>

(* len(st.session_state.pdf_images) *)
total == Len(slides_json)

(* run_keyword_expansion: every slide gets its keywords_expanded *)
run_keyword_expansion(deck) ==
    [k \in DOMAIN deck |->
        IF deck[k].slide_text = SlidePhoto.slide_text
        THEN Put(deck[k], "keywords_expanded", SlidePhoto.keywords_expanded)
        ELSE IF deck[k].slide_text = SlideTwo.slide_text
        THEN Put(deck[k], "keywords_expanded", SlideTwo.keywords_expanded)
        ELSE Put(deck[k], "keywords_expanded", SlideEmptyKeywords.keywords_expanded)]

(* what the transcription of a recording can give: no word at all, or
   words that create_segment_object groups into segments *)
Heard == {<<>>, <<SegTalk>>}

(* run_whisper_analysis, lines 98-135: output_json_path as a record of
   whether it exists and the segments it holds; with no word recognised the
   function returns before it opens the file *)
run_whisper_analysis(file, refined_segments) ==
    IF refined_segments = <<>>
    THEN file
    ELSE [exists |-> TRUE, segments |-> refined_segments]

(* lines 192-212: the entry appended for ts[n]; no statement of app.py stores
   an "END" page, so the two tests for it never succeed *)
timing_entry(ts, n, audio_start_in_session, total_duration) ==
    LET raw_start == ts[n].time - audio_start_in_session
        start_time == Max(0, round2(raw_start))
        next_end == IF n + 1 <= Len(ts)
                    THEN round2(ts[n + 1].time - audio_start_in_session)
                    ELSE round2(total_duration)
        end_time == Min(next_end, round2(total_duration))
    IN  [page_index |-> ts[n].page,
         start_time |-> start_time,
         end_time |-> IF end_time <= start_time
                      THEN start_time + T(1, 10)
                      ELSE end_time]

(* lines 186-215 *)
final_timings(ts, audio_start_in_session, total_duration) ==
    LET appended == [n \in DOMAIN ts |->
                        timing_entry(ts, n, audio_start_in_session, total_duration)]
    IN  IF appended # <<>>
        THEN [appended EXCEPT ![1].start_time = 0]
        ELSE appended

InitStudio ==
    /\ pc = "studio"
    /\ exists = [f \in Files |-> FALSE]
    /\ slide_file = <<>> /\ whisper_file = <<>> /\ timing_file = <<>>
    /\ audio = [raises |-> FALSE, none |-> FALSE, valid |-> 40,
                std |-> Rat(14004, 1000)]
    /\ semantic_model = [key \in ConceptKeys |-> Rat(15, 100)]
    /\ slides = <<>> /\ segments = <<>> /\ timings = <<>>
    /\ i = 0 /\ output_file = <<>> /\ writes = 0
    /\ encode_calls = {} /\ locals = <<>>
    /\ calls = 0 /\ wpm_in = <<>> /\ wpm_out = <<>>
    /\ StudioIdle
    /\ WhisperIdle

matcher == <<exists, slide_file, whisper_file, timing_file, audio,
             semantic_model, slides, segments, timings, i, output_file,
             writes, encode_calls, locals, calls, wpm_in, wpm_out>>

(* time passes while the session is live *)
Tick ==
    /\ pc = "studio"
    /\ practice_started
    /\ clock < MaxTicks * TickLen
    /\ clock' = clock + TickLen
    /\ UNCHANGED <<pc, matcher, page_index, slide_timestamps, practice_started,
                   analysis_done, recordings, heard,
                   transcriber>>

(* lines 258-265: the Start Session button *)
StartSession ==
    /\ pc = "studio"
    /\ ~practice_started
    /\ practice_started' = TRUE
    /\ clock' = 0
    /\ slide_timestamps' = << [page |-> 0, time |-> 0] >>
    /\ UNCHANGED <<pc, matcher, page_index, analysis_done, recordings, heard,
                   transcriber>>

(* lines 269-273: the Restart button *)
Restart ==
    /\ pc = "studio"
    /\ practice_started
    /\ practice_started' = FALSE
    /\ page_index' = 0
    /\ slide_timestamps' = <<>>
    /\ UNCHANGED <<pc, matcher, analysis_done, clock, recordings, heard,
                   transcriber>>

(* lines 290-292: the Prev button *)
PrevSlide ==
    /\ pc = "studio"
    /\ page_index # 0
    /\ page_index' = page_index - 1
    /\ UNCHANGED <<pc, matcher, slide_timestamps, practice_started,
                   analysis_done, clock, recordings, heard,
                   transcriber>>

(* lines 294-301: the Next button *)
NextSlide ==
    /\ pc = "studio"
    /\ page_index # total - 1
    /\ practice_started => Len(slide_timestamps) < MaxStamps
    /\ slide_timestamps' =
          IF practice_started
          THEN Append(slide_timestamps, [page |-> page_index + 1, time |-> clock])
          ELSE slide_timestamps
    /\ page_index' = page_index + 1
    /\ UNCHANGED <<pc, matcher, practice_started, analysis_done, clock,
                   recordings, heard,
                   transcriber>>

(* lines 275-278 and 177-222: a recording is handed in; the audio and the
   timing file are written, run_whisper_analysis and run_keyword_expansion
   have run and run_comprehensive_analysis is called *)
Record ==
    /\ pc = "studio"
    /\ practice_started
    /\ recordings < MaxRecordings
    /\ \E audio_start_in_session \in {0, TickLen}, refined_segments \in Heard :
          /\ audio_start_in_session < clock
          /\ LET total_duration == clock - audio_start_in_session
                 whisper == run_whisper_analysis(
                               [exists |-> exists["whisper"], segments |-> whisper_file],
                               refined_segments)
             IN  /\ audio' = Put(audio, "total_duration", total_duration)
                 /\ timing_file' = final_timings(slide_timestamps,
                                                 audio_start_in_session, total_duration)
                 /\ whisper_file' = whisper.segments
                 /\ exists' = [f \in Files |->
                                  IF f = "whisper" THEN whisper.exists ELSE TRUE]
          /\ heard' = refined_segments
    /\ slide_file' = run_keyword_expansion(slides_json)
    /\ recordings' = recordings + 1
    /\ calls' = calls + 1
    /\ pc' = "start"
    /\ slides' = <<>> /\ segments' = <<>> /\ timings' = <<>>
    /\ i' = 0 /\ writes' = 0
    /\ encode_calls' = {} /\ locals' = <<>>
    /\ UNCHANGED <<semantic_model, output_file, wpm_in, wpm_out,
                   page_index, slide_timestamps, practice_started,
                   analysis_done, clock,
                   transcriber>>

(* lines 228-233: run_comprehensive_analysis has returned *)
FinishStage1 ==
    /\ pc = "done"
    /\ analysis_done' = TRUE
    /\ practice_started' = FALSE
    /\ pc' = "studio"
    /\ UNCHANGED <<matcher, page_index, slide_timestamps, clock, recordings, heard,
                   transcriber>>

(* lines 461-471: the Practice Again button of the review section *)
PracticeAgain ==
    /\ pc = "studio"
    /\ analysis_done /\ output_file # <<>> /\ ~practice_started
    /\ exists' = [f \in Files |-> IF f = "slides" THEN exists[f] ELSE FALSE]
    /\ whisper_file' = <<>> /\ timing_file' = <<>>
    /\ output_file' = <<>>
    /\ page_index' = 0
    /\ practice_started' = FALSE
    /\ analysis_done' = FALSE
    /\ slide_timestamps' = <<>>
    /\ UNCHANGED <<pc, slide_file, audio, semantic_model, slides, segments,
                   timings, i, writes, encode_calls, locals, calls, wpm_in,
                   wpm_out, clock, recordings, heard,
                   transcriber>>

NextStudio ==
    \/ Tick
    \/ StartSession
    \/ Restart
    \/ PrevSlide
    \/ NextSlide
    \/ Record
    \/ Next
    \/ FinishStage1
    \/ PracticeAgain

SpecStudio == InitStudio /\ [][NextStudio]_vars

-----------------------------------------------------------------------------
(* run_comprehensive_analysis on timing entries with end_time <= start_time *)

(* the first and the third lie inside SegTalk, the third inside SegFillers
   too; the second is clamped to 20 s by lines 167-168 *)
ZeroWindowCycle ==
    << [page_index |-> 0, start_time |-> 5 * Second, end_time |-> 5 * Second],
       [page_index |-> 1, start_time |-> 20 * Second, end_time |-> 15 * Second],
       [page_index |-> 2, start_time |-> 7 * Second, end_time |-> 7 * Second] >>

ZeroTimingFiles ==
    {Rotation(ZeroWindowCycle, r, n) :
        r \in 0..(Len(ZeroWindowCycle) - 1), n \in 0..MaxSlides}

InitZeroWindow ==
    /\ pc = "start"
    /\ \/ /\ exists = AllExist
          /\ slide_file \in Decks
          /\ whisper_file \in Transcripts
          /\ timing_file \in ZeroTimingFiles
          /\ audio \in AudioOutcomes
          /\ semantic_model \in SemanticModels
       \/ /\ exists \in {e \in [Files -> BOOLEAN] : e # AllExist}
          /\ slide_file = <<>>
          /\ whisper_file = <<>>
          /\ timing_file = <<>>
          /\ audio \in {a \in AudioOutcomes : a.raises}
          /\ semantic_model \in {m \in SemanticModels : m["photo"] = WEAK_THR}
    /\ output_file = <<>>
    /\ slides = <<>>
    /\ segments = <<>>
    /\ timings = <<>>
    /\ i = 0
    /\ writes = 0
    /\ encode_calls = {}
    /\ locals = <<>>
    /\ OutsideIdle

SpecZeroWindow == InitZeroWindow /\ [][Next]_vars

-----------------------------------------------------------------------------
(* run_comprehensive_analysis on every outcome of the audio library *)

PitchOutcomes ==
    AudioOutcomes \cup
    { [raises |-> FALSE, none |-> TRUE,  valid |-> 0, std |-> Whole(0)],
      [raises |-> FALSE, none |-> FALSE, valid |-> 0, std |-> Whole(0)],
      [raises |-> FALSE, none |-> FALSE, valid |-> 1, std |-> Whole(0)],
      [raises |-> FALSE, none |-> FALSE, valid |-> 2, std |-> Rat(314159, 100000)],
      [raises |-> FALSE, none |-> FALSE, valid |-> 40, std |-> Rat(14004, 1000),
       fails_from |-> 10 * Second] }

InitPitch ==
    /\ pc = "start"
    /\ \/ /\ exists = AllExist
          /\ slide_file \in Decks
          /\ whisper_file \in Transcripts
          /\ timing_file \in TimingFiles
          /\ audio \in PitchOutcomes
       \/ /\ exists \in {e \in [Files -> BOOLEAN] : e # AllExist}
          /\ slide_file = <<>>
          /\ whisper_file = <<>>
          /\ timing_file = <<>>
          /\ audio \in {a \in PitchOutcomes : a.raises}
    /\ semantic_model \in {m \in SemanticModels : m["photo"] = WEAK_THR}
    /\ output_file = <<>>
    /\ slides = <<>>
    /\ segments = <<>>
    /\ timings = <<>>
    /\ i = 0
    /\ writes = 0
    /\ encode_calls = {}
    /\ locals = <<>>
    /\ OutsideIdle

SpecPitch == InitPitch /\ [][Next]_vars

-----------------------------------------------------------------------------
(* The re-segmentation of run_whisper_analysis and create_segment_object.
   A word is [word, start, end, probability].  The times of the inputs are
   multiples of 0.125 s, which floats hold exactly, so that the gaps and
   their comparison with 0.7 are those of the code. *)

MAX_GAP_DURATION == T(7, 10)

CONFIDENCE_THRESHOLD == Rat(75, 100)

FILLER_WORDS_LIST == {"uh", "um", "ah", "er", "uhm", "well", "like", "know"}

(* str.strip() of blanks *)
strip(s) ==
    LET kept == {k \in 1..Len(s) : Char(s, k) # " "}
    IN  IF kept = {} THEN ""
        ELSE SubSeq(s, Nth(kept, 1), Nth(kept, Cardinality(kept)))

(* "".join(parts) *)
RECURSIVE Concat(_)
Concat(parts) ==
    IF Len(parts) = 0 THEN ""
    ELSE IF Len(parts) = 1 THEN parts[1]
    ELSE Concat(Left(parts)) \o Concat(Right(parts))

(* line 47 *)
word_str(w) == Remove(Remove(Lower(strip(w.word)), "."), ",")

(* lines 49-55 *)
low_conf_words(words, threshold) ==
    LET low == SelectSeq(words, LAMBDA w : RLt(w.probability, threshold))
    IN  [k \in DOMAIN low |->
            [word  |-> strip(low[k].word),
             conf  |-> Round2(low[k].probability),
             start |-> round2(low[k].start)]]

(* lines 57-63 *)
filler_words(words) ==
    LET said == SelectSeq(words, LAMBDA w : word_str(w) \in FILLER_WORDS_LIST)
    IN  [k \in DOMAIN said |->
            [word  |-> word_str(said[k]),
             start |-> round2(said[k].start),
             end   |-> round2(said[k].end)]]

(* lines 41-72 *)
create_segment_object(seg_id, words, threshold) ==
    [id            |-> seg_id,
     voice_start   |-> round2(words[1].start),
     voice_end     |-> round2(words[Len(words)].end),
     text          |-> strip(Concat([k \in DOMAIN words |-> words[k].word])),
     mumbled_words |-> low_conf_words(words, threshold),
     filler_words  |-> filler_words(words)]

(* is_sentence_end with the full stop alone *)
is_sentence_end_full_stop(prev_w) ==
    LET text == strip(prev_w.word)
    IN  Len(text) > 0 /\ Char(text, Len(text)) = "."

(* line 114 *)
is_sentence_end(prev_w) ==
    LET text == strip(prev_w.word)
    IN  Len(text) > 0 /\ Char(text, Len(text)) \in {".", "?", "!"}

(* lines 110-121: the loop from its iteration n on (n counts from 1, the
   code's i = n - 1); refined holds the groups of words handed to
   create_segment_object so far *)
RECURSIVE regroup(_, _, _, _)
regroup(words, n, refined, current_group) ==
    IF n > Len(words)
    THEN [refined |-> refined, current_group |-> current_group]
    ELSE LET prev_w == words[n - 1]
             curr_w == words[n]
             gap    == curr_w.start - prev_w.end
         IN  IF gap > MAX_GAP_DURATION \/ is_sentence_end(prev_w)
             THEN regroup(words, n + 1, Append(refined, current_group), <<curr_w>>)
             ELSE regroup(words, n + 1, refined, Append(current_group, curr_w))

(* lines 107-126: the groups of words of the refined segments, in order *)
word_groups(words) ==
    LET after == regroup(words, 2, <<>>, <<words[1]>>)
    IN  IF after.current_group # <<>>
        THEN Append(after.refined, after.current_group)
        ELSE after.refined

(* sum(len(s["filler_words"]) for s in refined_segments) *)
RECURSIVE total_filler_count(_)
total_filler_count(refined_segments) ==
    IF refined_segments = <<>> THEN 0
    ELSE Len(Head(refined_segments).filler_words)
         + total_filler_count(Tail(refined_segments))

(* lines 98-138: what run_whisper_analysis returns for the words collected,
   with the groups of words its segments were made of *)
whisper_result(words) ==
    IF words = <<>>
    THEN [groups |-> <<>>, output |-> [segments |-> <<>>]]
    ELSE LET groups == word_groups(words)
             refined_segments ==
                 [k \in DOMAIN groups |->
                     create_segment_object(k - 1, groups[k], CONFIDENCE_THRESHOLD)]
         IN  [groups |-> groups,
              output |-> [segments |-> refined_segments,
                          language |-> "en",
                          total_filler_count |-> total_filler_count(refined_segments)]]

(* the words of the inputs and the probability the transcriber gives each *)
WordTexts == {" um", " green", " plants.", " why?", " Like,", " go!"}

WordProbability(text) ==
    CASE text = " um"    -> Rat(75, 100)
      [] text = " green" -> Rat(5, 10)
      [] OTHER           -> Rat(9, 10)

(* the pauses between a word and the next *)
Gaps == {0, T(625, 1000), T(75, 100)}

WordLength == T(25, 100)

(* the words with the given texts, the first at 0.25 s, each WordLength
   long, word k + 1 following word k after gaps[k] *)
RECURSIVE StartOf(_, _)
StartOf(gaps, k) ==
    IF k = 1 THEN T(25, 100)
    ELSE StartOf(gaps, k - 1) + WordLength + gaps[k - 1]

Words(texts, gaps) ==
    [k \in DOMAIN texts |->
        [word        |-> texts[k],
         start       |-> StartOf(gaps, k),
         end         |-> StartOf(gaps, k) + WordLength,
         probability |-> WordProbability(texts[k])]]

InitWhisper ==
    /\ pc = "whisper"
    /\ NoRun
    /\ StudioIdle
    /\ calls = 0 /\ wpm_in = <<>> /\ wpm_out = <<>>
    /\ \E n \in 0..MaxWords :
          \E texts \in [1..n -> WordTexts], gaps \in [1..(n - 1) -> Gaps] :
              all_words = Words(texts, gaps)
    /\ returned = <<>>

(* lines 98-138 *)
Resegment ==
    /\ pc = "whisper"
    /\ returned = <<>>
    /\ returned' = <<whisper_result(all_words)>>
    /\ UNCHANGED <<pc, exists, slide_file, whisper_file, timing_file, audio,
                   semantic_model, slides, segments, timings, i, output_file,
                   writes, encode_calls, locals, calls, wpm_in, wpm_out, studio,
                   all_words>>

SpecWhisper == InitWhisper /\ [][Resegment]_vars

-----------------------------------------------------------------------------
(* Properties *)

(* the slides the loop has analysed with a timing entry *)
Analysed == {k \in 1..Len(slides) : k <= i /\ k <= Len(timings)}

(* the slides the loop has marked as having no timing entry *)
Untimed == {k \in 1..Len(slides) : k <= i /\ k > Len(timings)}

Local(k) == locals[k][1]

(* C1: with the default weights, every slide that received a timing entry
   gets an overall_score between 0 and 100. *)
C1_OverallScoreBounded ==
    \A k \in Analysed :
        /\ RLe(Whole(0), slides[k].overall_score)
        /\ RLe(slides[k].overall_score, Whole(100))

(* a slide with text, fillers and mumbles whose raw fluency is negative and
   whose score is positive, and one whose pitch is above the cap of the
   tone term *)
C1_Witness ==
    /\ \E k \in Analysed :
          /\ Local(k).has_text
          /\ RLt(RSub(wpm_score(Local(k).wpm), RMul(Local(k).mumble_rate, Whole(2))),
                 Whole(0))
          /\ RLt(Whole(0), slides[k].overall_score)
    /\ \E k \in Analysed :
          /\ Local(k).has_text
          /\ RLt(Whole(15), Local(k).pitch_var)

(* C2: a slide whose matched text is empty has overall_score 0.0. *)
C2_EmptyTextScoresZero ==
    \A k \in Analysed :
        Local(k).full_text = "" => slides[k].overall_score = Whole(0)

(* C3, as claimed: a slide with a timing entry and no expected keyword
   reports the content score 100.0 in each speech-presence state. *)
C3_Original ==
    \A k \in Analysed :
        Len(Get(slide_file[k], "keywords_expanded", <<>>)) = 0
            => slides[k].content_analysis.score = Whole(100)

(* C3, amended: for such a slide the content score the score calculator is
   given is 100.0 in each state; the reported content_analysis.score is
   100.0 in the Matched state and 0.0 in the other two. *)
C3_ZeroKeywordsContentScore ==
    \A k \in Analysed :
        Len(Get(slide_file[k], "keywords_expanded", <<>>)) = 0
            => /\ Local(k).content_score = Whole(100)
               /\ slides[k].content_analysis.status = "OK"
                    => slides[k].content_analysis.score = Whole(100)
               /\ slides[k].content_analysis.status # "OK"
                    => slides[k].content_analysis.score = Whole(0)

(* two slides without keywords: one in the Matched state reporting 100.0,
   one in the Speech-not-captured state reporting 0.0 *)
C3_Witness ==
    /\ \E k \in Analysed :
          /\ Len(Get(slide_file[k], "keywords_expanded", <<>>)) = 0
          /\ slides[k].content_analysis.status = "OK"
          /\ slides[k].content_analysis.score = Whole(100)
    /\ \E k \in Analysed :
          /\ Len(Get(slide_file[k], "keywords_expanded", <<>>)) = 0
          /\ slides[k].content_analysis.status = "Speech Not Captured"
          /\ slides[k].content_analysis.score = Whole(0)

(* the overlap of segment seg with the window written to slide k *)
WindowOverlap(k, seg) ==
    LET seg_start == IF "voice_start" \in DOMAIN seg THEN seg.voice_start
                     ELSE seg.start
        seg_end   == IF "voice_end" \in DOMAIN seg THEN seg.voice_end
                     ELSE seg.end
        start_t   == slides[k].start_time[1]
        end_t     == slides[k].end_time[1]
    IN  (IF end_t <= seg_end THEN end_t ELSE seg_end)
          - (IF start_t >= seg_start THEN start_t ELSE seg_start)

(* the overlap of all segments with the window of slide k, summed over the
   positive ones *)
RECURSIVE SumOverlap(_, _)
SumOverlap(k, segs) ==
    IF segs = <<>> THEN 0
    ELSE (IF WindowOverlap(k, Head(segs)) > 0 THEN WindowOverlap(k, Head(segs))
          ELSE 0) + SumOverlap(k, Tail(segs))

(* C4: the status of a slide with a timing entry is "OK" if a segment was
   matched, else "Speech Not Captured" if the summed overlap is above
   0.30 s, else "No Speech Detected"; exactly 0.30 s gives No-speech. *)
C4_SpeechPresenceState ==
    \A k \in Analysed :
        LET status  == slides[k].content_analysis.status
            matched == Local(k).matched_segments # <<>>
            speech  == SumOverlap(k, segments)
        IN  /\ status \in {"OK", "Speech Not Captured", "No Speech Detected"}
            /\ status = "OK" <=> matched
            /\ status = "Speech Not Captured" <=> ~matched /\ speech > 300000
            /\ status = "No Speech Detected" <=> ~matched /\ speech <= 300000

(* no match and exactly 0.30 s of overlap: No-speech *)
C4_Witness ==
    \E k \in Analysed :
        /\ Local(k).matched_segments = <<>>
        /\ SumOverlap(k, segments) = 300000
        /\ slides[k].content_analysis.status = "No Speech Detected"

(* C5: a slide without a timing entry gets start_time and end_time None and
   the marker in its three blocks, nothing is analysed or scored for it,
   the analysed slides are what the loop body made of them from their own
   timing entry, and the run ends with the report written. *)
C5_UntimedSlideMarked ==
    /\ \A k \in Untimed :
          /\ {"start_time", "end_time", "content_analysis", "tone_analysis",
              "metrics"} \subseteq DOMAIN slides[k]
          /\ slides[k].start_time = <<>>
          /\ slides[k].end_time = <<>>
          /\ slides[k].content_analysis = [error |-> "No timing data"]
          /\ slides[k].tone_analysis = [error |-> "No timing data"]
          /\ slides[k].metrics = [error |-> "No timing data"]
          /\ "overall_score" \notin DOMAIN slides[k]
          /\ locals[k] = <<>>
          /\ \A c \in encode_calls : c[1] # k - 1
    /\ \A k \in Analysed :
          /\ locals[k] # <<>>
          /\ Local(k).start_t = timing_file[k].start_time
          /\ slides[k] = enrich(slide_file[k], Local(k))
    /\ Untimed # {} => pc \in {"loop", "done"}
    /\ pc = "done" =>
          /\ Analysed \cup Untimed = DOMAIN slide_file
          /\ output_file = <<slides>>
          /\ Untimed # {} =>
                \A k \in Analysed :
                    slides[k] = analyse(slide_file[k], timing_file[k],
                                        segments, audio, semantic_model)

(* a finished run with an analysed slide followed by an untimed one *)
C5_Witness ==
    /\ pc = "done"
    /\ Analysed # {}
    /\ Untimed # {}

(* C6, in each state: with an input missing the run stops before the loop
   and nothing is written; the report is written at most once, after the
   last slide. *)
C6_State ==
    /\ (\E f \in Files : ~exists[f]) =>
          /\ pc \in {"start", "raised"}
          /\ slides = <<>> /\ locals = <<>> /\ i = 0
          /\ writes = 0
    /\ writes <= 1
    /\ writes = 1 => pc = "done" /\ i = Len(slides)

(* C6, in each step: the output file changes only in the step that ends
   the loop, and not when an input is missing *)
C6_Step ==
    (output_file' # output_file \/ writes' # writes) =>
        /\ \A f \in Files : exists[f]
        /\ pc = "loop" /\ i = Len(slides) /\ writes = 0
        /\ pc' = "done"

(* C6: a missing input file raises FileNotFoundError before any slide is
   processed and leaves the report file as it was; the report is written
   at most once and only after the loop. *)
C6_MissingFileFailsFast == [](C6_State) /\ [][C6_Step]_vars

(* the run has raised with a stale report in place *)
C6_Witness ==
    /\ pc = "raised"
    /\ ~exists["audio"]
    /\ output_file = <<StaleReport>>

(* C7: a segment is selected for a window only if its overlap is above
   0.15 s; exactly 0.15 s is excluded, and 0.1501 s is included when
   no_speech_prob <= 0.97. *)
C7_OverlapThreshold ==
    \A k \in Analysed : \A n \in DOMAIN segments :
        LET seg      == segments[n]
            selected == seg \in Range(Local(k).matched_segments)
            quiet    == /\ "no_speech_prob" \in DOMAIN seg
                        /\ seg.no_speech_prob.n * 100 > 97 * seg.no_speech_prob.d
        IN  /\ selected => WindowOverlap(k, seg) > 150000
            /\ WindowOverlap(k, seg) = 150000 => ~selected
            /\ WindowOverlap(k, seg) >= 150100 /\ ~quiet => selected

(* a segment excluded from a window it overlaps by 0.15 s and a segment
   selected for a window it overlaps by 0.1501 s *)
C7_Witness ==
    \E n1, n2 \in DOMAIN segments : \E k1, k2 \in Analysed :
        /\ WindowOverlap(k1, segments[n1]) = 150000
        /\ segments[n1] \notin Range(Local(k1).matched_segments)
        /\ WindowOverlap(k2, segments[n2]) = 150100
        /\ segments[n2] \in Range(Local(k2).matched_segments)

ConceptKeysOf(k) ==
    {e.key : e \in Range(Get(slide_file[k], "keywords_expanded", <<>>))}

(* each key of keys is once in list a or once in list b, not in both, and
   the lists hold nothing else *)
Partition(keys, a, b) ==
    /\ Range(a) \cup Range(b) = keys
    /\ Range(a) \cap Range(b) = {}
    /\ Len(a) + Len(b) = Cardinality(keys)

(* C8, as claimed: for every slide with a timing entry the covered and
   missed lists of the result partition the slide's concept keys. *)
C8_Original ==
    \A k \in Analysed :
        Partition(ConceptKeysOf(k),
                  slides[k].content_analysis.covered_keywords,
                  slides[k].content_analysis.missed_keywords)

(* C8, amended: they do for every slide with a timing entry and at least
   one matched segment; without a matched segment both lists are empty. *)
C8_CoveredMissedPartition ==
    \A k \in Analysed :
        LET covered_keywords == slides[k].content_analysis.covered_keywords
            missed_keywords  == slides[k].content_analysis.missed_keywords
        IN  IF Local(k).matched_segments # <<>>
            THEN Partition(ConceptKeysOf(k), covered_keywords, missed_keywords)
            ELSE covered_keywords = <<>> /\ missed_keywords = <<>>

(* a slide with a covered and a missed key, and a slide with keys and no
   matched segment *)
C8_Witness ==
    /\ \E k \in Analysed :
          /\ Local(k).matched_segments # <<>>
          /\ slides[k].content_analysis.covered_keywords # <<>>
          /\ slides[k].content_analysis.missed_keywords # <<>>
    /\ \E k \in Analysed :
          /\ Local(k).matched_segments = <<>>
          /\ ConceptKeysOf(k) # {}

(* C9: a concept matched by the lexical or the substring tier is covered
   without the semantic tier encoding its candidates, and nothing is
   encoded for a slide whose spoken text gave no sentence embedding. *)
C9_TierShortCircuit ==
    \A k \in Analysed :
        /\ \A m \in Range(Local(k).matches) :
              m.tier \in {1, 2} =>
                  /\ <<k - 1, m.key>> \notin encode_calls
                  /\ m.key \in Range(slides[k].content_analysis.covered_keywords)
        /\ Local(k).full_text = "" => \A c \in encode_calls : c[1] # k - 1

(* a slide with one concept matched by the substring tier and another one
   that reached the semantic tier *)
C9_Witness ==
    \E k \in Analysed :
        /\ \E m \in Range(Local(k).matches) : m.tier = 2
        /\ \E c \in encode_calls : c[1] = k - 1

(* the end-to-end scenario: the photosynthesis slide, the window [0, 10),
   the one segment [1, 9) of 10 words, pitch variability 14.0 *)
Scenario(k) ==
    /\ slide_file[k] = SlidePhoto
    /\ slides[k].start_time = <<0>> /\ slides[k].end_time = <<10 * Second>>
    /\ segments = <<SegTalk>>
    /\ slides[k].tone_analysis.pitch_variability = Whole(14)

(* the fluency sub-score before weighting *)
FluencyOf(k) ==
    RDiv(score_fluency(Local(k).wpm, Local(k).mumble_rate,
                       Len(Local(k).fillers), Local(k).duration),
         weight_fluency)

ScenarioResult(k, overall) ==
    /\ slides[k].content_analysis.covered_keywords = <<"photosynthesis">>
    /\ slides[k].content_analysis.score = Whole(100)
    /\ slides[k].metrics.wpm = Whole(75)
    /\ FluencyOf(k) = Rat(175, 10)
    /\ slides[k].overall_score = overall

(* C10, as claimed: the scenario gives overall_score 65.9. *)
C10_Original ==
    \A k \in Analysed : Scenario(k) => ScenarioResult(k, Rat(659, 10))

(* C10, amended: the scenario gives covered = [photosynthesis], content
   score 100.0, wpm 75, fluency sub-score 17.5 and overall_score 65.0
   (30 + 7 + 28). *)
C10_EndToEndScenario ==
    \A k \in Analysed : Scenario(k) => ScenarioResult(k, Whole(65))

C10_Witness == \E k \in Analysed : Scenario(k)

(* four times the WPM sub-score of a wpm given as twice its value *)
FourTimesSubScore(twice_wpm) ==
    LET twice_dist == IF twice_wpm < 260 THEN 260 - twice_wpm
                      ELSE twice_wpm - 320
    IN  IF 260 <= twice_wpm /\ twice_wpm <= 320 THEN 400
        ELSE IF 400 - 3 * twice_dist > 0 THEN 400 - 3 * twice_dist ELSE 0

(* C11: the WPM sub-score is 100 for 130 <= wpm <= 160, both edges
   included, and max(0, 100 - 1.5 * distance to the nearest edge) outside;
   wpm = 100 gives 55; it is never negative and never above 100. *)
C11_WpmSubScore ==
    wpm_out # <<>> =>
        LET twice_wpm == (2 * wpm_in[1].n) \div wpm_in[1].d
            score     == wpm_out[1]
        IN  /\ 4 * score.n = FourTimesSubScore(twice_wpm) * score.d
            /\ twice_wpm \in {260, 320} => score = [n |-> 100, d |-> 1]
            /\ twice_wpm = 200 => score = [n |-> 55, d |-> 1]
            /\ score.n >= 0 /\ score.n <= 100 * score.d

(* the upper band edge scored 100 *)
C11_Witness ==
    /\ wpm_in = <<[n |-> 160, d |-> 1]>>
    /\ wpm_out = <<[n |-> 100, d |-> 1]>>

(* C12: a second run on the same files and configuration writes the
   report the first run wrote: the step that ends a later call leaves the
   report file as the call before left it, and the report is what the
   loop body makes of the files alone. *)
C12_SecondRunSameReport ==
    [][calls >= 2 /\ pc = "loop" /\ pc' = "done"
         => /\ output_file' = output_file
            /\ \A k \in Analysed :
                  output_file'[1][k] = analyse(slide_file[k], timing_file[k],
                                               whisper_file, audio, semantic_model)]_vars

(* the second run has written a report with an analysed slide that needed
   the embedding model *)
C12_Witness ==
    /\ calls = 2
    /\ pc = "done"
    /\ Analysed # {}
    /\ encode_calls # {}

(* C13: every slide record of the report carries start_time, end_time,
   overall_score, content_analysis, tone_analysis and metrics, whatever the
   numbers of slides and of timing entries are. *)
C13_SixEnrichmentFields ==
    pc = "done" =>
        \A k \in DOMAIN output_file[1] :
            {"start_time", "end_time", "overall_score", "content_analysis",
             "tone_analysis", "metrics"} \subseteq DOMAIN output_file[1][k]

(* C15: the metrics label is "Excellent" if overall_score >= 85, else
   "Pass" if the slide has text and mumble_rate <= 20, else "Unclear
   Speech" if it has text, else the speech-presence status; a slide
   without matched text is never Excellent, Pass or Unclear Speech. *)
C15_MetricsStatusOrder ==
    \A k \in Analysed :
        LET label    == slides[k].metrics.status
            overall  == slides[k].overall_score
            has_text == Local(k).full_text # ""
            mrate    == Local(k).mumble_rate
        IN  /\ label = IF overall.n >= 85 * overall.d THEN "Excellent"
                       ELSE IF has_text /\ mrate.n <= 20 * mrate.d THEN "Pass"
                       ELSE IF has_text THEN "Unclear Speech"
                       ELSE slides[k].content_analysis.status
            /\ ~has_text => label \notin {"Excellent", "Pass", "Unclear Speech"}

(* C16: tone status is "Dynamic" iff pitch_variability > 12.0 and overlap
   speech > 0.30 s, "Monotone" iff overlap speech > 0.30 s and
   pitch_variability <= 12.0, "Unknown" iff overlap speech <= 0.30 s; in
   the No-speech state it is "Unknown" with pitch_variability 0. *)
C16_ToneStatus ==
    \A k \in Analysed :
        LET tone   == slides[k].tone_analysis
            high   == tone.pitch_variability.n > 12 * tone.pitch_variability.d
            speech == SumOverlap(k, segments) > 300000
        IN  /\ tone.status = "Dynamic" <=> high /\ speech
            /\ tone.status = "Monotone" <=> speech /\ ~high
            /\ tone.status = "Unknown" <=> ~speech
            /\ slides[k].content_analysis.status = "No Speech Detected"
                  => /\ tone.status = "Unknown"
                     /\ tone.pitch_variability = [n |-> 0, d |-> 1]

(* a matched slide with high pitch and not more than 0.30 s of overlap,
   and a slide in the No-speech state *)
C16_Witness ==
    /\ \E k \in Analysed :
          /\ slides[k].content_analysis.status = "OK"
          /\ slides[k].tone_analysis.pitch_variability.n > 12
          /\ slides[k].tone_analysis.status = "Unknown"
    /\ \E k \in Analysed :
          slides[k].content_analysis.status = "No Speech Detected"

(* C17: the window written for a slide with a timing entry has
   end_time >= start_time: an entry with end_time < start_time is clamped
   to end_time = start_time, any other entry is attached unchanged. *)
C17_WindowClamped ==
    \A k \in Analysed :
        LET entry == timing_file[k]
            start == slides[k].start_time[1]
            end   == slides[k].end_time[1]
        IN  /\ end >= start
            /\ start = entry.start_time
            /\ entry.end_time < entry.start_time => end = entry.start_time
            /\ entry.end_time >= entry.start_time => end = entry.end_time

(* an entry with end_time < start_time was attached *)
C17_Witness ==
    \E k \in Analysed :
        /\ timing_file[k].end_time < timing_file[k].start_time
        /\ slides[k].end_time = slides[k].start_time

(* the segment's no_speech_prob is above 0.97 *)
NearSilence(seg) ==
    /\ "no_speech_prob" \in DOMAIN seg
    /\ seg.no_speech_prob.n * 100 > 97 * seg.no_speech_prob.d

(* the number of filler words of the segments that overlap the window of
   slide k by more than 0.15 s and are not near-certain silence *)
RECURSIVE SpokenFillers(_, _)
SpokenFillers(k, segs) ==
    IF segs = <<>> THEN 0
    ELSE (IF /\ WindowOverlap(k, Head(segs)) > 150000
             /\ ~NearSilence(Head(segs))
             /\ "filler_words" \in DOMAIN Head(segs)
          THEN Len(Head(segs).filler_words) ELSE 0)
         + SpokenFillers(k, Tail(segs))

(* C19: a segment with no_speech_prob > 0.97 is never among the matched
   segments and its fillers are not counted, but its positive overlap is
   part of the overlap speech duration: a slide overlapped only by such
   segments for more than 0.30 s is "Speech Not Captured". *)
C19_NearSilenceSegments ==
    \A k \in Analysed :
        /\ \A n \in DOMAIN segments :
              NearSilence(segments[n])
                  => segments[n] \notin Range(Local(k).matched_segments)
        /\ slides[k].content_analysis.filler_count = SpokenFillers(k, segments)
        /\ Local(k).overlap_speech = SumOverlap(k, segments)
        /\ ( /\ \A n \in DOMAIN segments :
                   WindowOverlap(k, segments[n]) > 0 => NearSilence(segments[n])
             /\ SumOverlap(k, segments) > 300000 )
              => slides[k].content_analysis.status = "Speech Not Captured"

(* a slide overlapped for 0.5 s by one near-silence segment with a filler *)
C19_Witness ==
    \E k \in Analysed : \E n \in DOMAIN segments :
        /\ NearSilence(segments[n])
        /\ WindowOverlap(k, segments[n]) = 500000
        /\ "filler_words" \in DOMAIN segments[n]
        /\ slides[k].content_analysis.status = "Speech Not Captured"

(* C20: in the Speech-not-captured and No-speech states wpm, mumble_rate,
   filler_rate_pm and filler_count are 0; pitch_variability is 0 in the
   No-speech state and as the pitch analyzer computed it in the
   Speech-not-captured state. *)
C20_UnmatchedMetricsZero ==
    \A k \in Analysed :
        LET status == slides[k].content_analysis.status
            zero   == [n |-> 0, d |-> 1]
        IN  /\ status \in {"Speech Not Captured", "No Speech Detected"}
                  => /\ slides[k].metrics.wpm = zero
                     /\ slides[k].metrics.mumble_rate = zero
                     /\ slides[k].metrics.filler_rate_pm = zero
                     /\ slides[k].content_analysis.filler_count = 0
            /\ status = "No Speech Detected"
                  => slides[k].tone_analysis.pitch_variability = zero
            /\ status = "Speech Not Captured"
                  => slides[k].tone_analysis.pitch_variability =
                        calculate_pitch_variability(audio,
                            slides[k].start_time[1], slides[k].end_time[1])

(* a slide in the Speech-not-captured state with a pitch variability the
   analyzer computed *)
C20_Witness ==
    \E k \in Analysed :
        /\ slides[k].content_analysis.status = "Speech Not Captured"
        /\ slides[k].tone_analysis.pitch_variability = [n |-> 14, d |-> 1]

-----------------------------------------------------------------------------
(* the timing entries recorded for the page of slide k of the report *)
EntriesOfPage(k) ==
    {n \in DOMAIN timing_file : timing_file[n].page_index = slides[k].page_index}

(* C14: after any sequence of Start Session, Next, Prev and Restart followed
   by a recording, every slide of the report has at most one timing entry
   for its page, carries the window of that entry, and is marked
   "No timing data" when no entry was recorded for its page. *)
C14_WindowOfOwnPage ==
    (pc = "done" /\ recordings > 0) =>
        \A k \in DOMAIN slides :
            /\ Cardinality(EntriesOfPage(k)) <= 1
            /\ EntriesOfPage(k) = {} =>
                    /\ slides[k].start_time = <<>>
                    /\ slides[k].content_analysis = NoTimingData
            /\ \A n \in EntriesOfPage(k) :
                    /\ slides[k].start_time = <<window_start(timing_file[n])>>
                    /\ slides[k].end_time = <<window_end(timing_file[n])>>

(* C18: a recording in which no word is recognised is analysed to the end:
   the analysis does not raise, it reads the empty transcript of this
   recording, and every timed slide is reported "No Speech Detected" with
   overall_score 0.0. *)
C18_NoWordsIsScored ==
    (recordings > 0 /\ heard = <<>>) =>
        /\ pc # "raised"
        /\ pc \in {"loop", "done"} => segments = heard
        /\ pc = "done" =>
                \A k \in Analysed :
                    /\ slides[k].content_analysis.status = "No Speech Detected"
                    /\ slides[k].overall_score = Whole(0)

-----------------------------------------------------------------------------
(* C21: a slide whose timing entry has end_time <= start_time gets
   overall_score 0.0 whatever the transcript holds, although the duration
   handed to _calculate_overall_score is floored at 1e-6 s and so is
   positive. *)
C21_ZeroWindowScoresZero ==
    \A k \in Analysed :
        timing_file[k].end_time <= timing_file[k].start_time =>
            /\ slides[k].end_time = slides[k].start_time
            /\ RLt(Whole(0), Local(k).duration)
            /\ Local(k).matched_segments = <<>>
            /\ slides[k].overall_score = Whole(0)

(* such a slide was analysed while a segment with text was being spoken at
   the instant of its window *)
C21_Witness ==
    /\ pc = "done"
    /\ \E k \in Analysed, n \in DOMAIN segments :
          /\ timing_file[k].end_time <= timing_file[k].start_time
          /\ SegStart(segments[n]) < Local(k).start_t
          /\ Local(k).start_t < SegEnd(segments[n])
          /\ Get(segments[n], "text", "") # ""
          /\ slides[k].overall_score = Whole(0)

-----------------------------------------------------------------------------
(* an audio on which the library behaves, for the window of slide k alone,
   as it does on the audio of the run *)
OwnAudio(k) ==
    IF library_raises(audio, Local(k).start_t)
    THEN [raises |-> TRUE, none |-> FALSE, valid |-> 0, std |-> Whole(0)]
    ELSE [raises |-> FALSE, none |-> audio.none, valid |-> audio.valid,
          std |-> audio.std]

(* C22: _calculate_pitch_variability never raises.  It returns 0.0 without
   loading the audio when end_t <= start_t, 0.0 when the load or the pitch
   estimation raises, 0.0 when pyin gives nothing or fewer than 2 valid
   estimates, and a non-negative value otherwise.  The run is never aborted
   with all four files present, and a slide's record is what the analysis
   gives on what the library does for that slide's own window. *)
C22_PitchNeverRaises ==
    /\ pc = "raised" => ~all_exist(exists)
    /\ \A k \in Analysed :
          LET start_t == Local(k).start_t
              end_t   == Local(k).end_t
              body    == pitch_try(audio, start_t, end_t)
              call    == pitch_call(audio, start_t, end_t)
          IN  /\ ~call.exc
              /\ RLe(Whole(0), call.value)
              /\ end_t <= start_t => call.value = Whole(0) /\ ~call.loaded
              /\ body.exc => call.value = Whole(0)
              /\ audio.none \/ audio.valid < 2 => call.value = Whole(0)
              /\ slides[k].tone_analysis.pitch_variability \in {Whole(0), call.value}
    /\ pc = "done" =>
          \A k \in Analysed :
              slides[k] = analyse(slide_file[k], timing_file[k], whisper_file,
                                  OwnAudio(k), semantic_model)

(* the library raised on the window of one slide and gave a pitch for the
   window of another, and the run wrote its report *)
C22_Witness ==
    /\ pc = "done"
    /\ \E failed \in Analysed, sound \in Analysed :
          /\ pitch_try(audio, Local(failed).start_t, Local(failed).end_t).exc
          /\ slides[failed].tone_analysis.pitch_variability = Whole(0)
          /\ ~pitch_try(audio, Local(sound).start_t, Local(sound).end_t).exc
          /\ slides[sound].tone_analysis.pitch_variability = Whole(14)

-----------------------------------------------------------------------------
(* the fields the loop body assigns, lines 171-178 and 329-366 *)
EnrichmentFields ==
    {"start_time", "end_time", "overall_score", "content_analysis",
     "tone_analysis", "metrics"}

(* slide k of the loop is the input slide k with results added *)
SameSlide(k) ==
    /\ DOMAIN slides[k] \ EnrichmentFields = DOMAIN slide_file[k]
    /\ \A f \in DOMAIN slide_file[k] : slides[k][f] = slide_file[k][f]

(* C23, in every state: the loop holds the input slides in their order, the
   slides not yet reached are untouched, the slides reached carry results,
   and the report written and returned is that sequence *)
C23_State ==
    /\ pc \in {"loop", "done"} =>
          /\ Len(slides) = Len(slide_file)
          /\ 0 <= i /\ i <= Len(slides)
          /\ \A k \in DOMAIN slides :
                /\ SameSlide(k)
                /\ k > i => slides[k] = slide_file[k]
                /\ k <= i => {"start_time", "end_time"} \subseteq DOMAIN slides[k]
    /\ pc = "done" => i = Len(slides) /\ output_file = <<slides>>

(* C23, in every step of the loop: exactly the next slide is processed *)
C23_Step ==
    (pc = "loop" /\ slides' # slides) =>
        /\ i' = i + 1
        /\ \A k \in DOMAIN slides : k # i + 1 => slides'[k] = slides[k]

(* C23: run_comprehensive_analysis returns and writes exactly the input
   slide sequence: same length and order, each slide processed once in
   index order, page_index, slide_text and keywords_expanded unchanged,
   only the enrichment fields added. *)
C23_SlideSequenceKept == [](C23_State) /\ [][C23_Step]_vars

(* a report of two slides, one analysed and one without timing entry, each
   with the text it came with *)
C23_Witness ==
    /\ pc = "done"
    /\ Len(slides) = 2
    /\ Analysed # {} /\ Untimed # {}
    /\ \A k \in DOMAIN slides :
          /\ slides[k].slide_text = slide_file[k].slide_text
          /\ slides[k] # slide_file[k]
    /\ \E k \in DOMAIN slides : "keywords_expanded" \in DOMAIN slides[k]

-----------------------------------------------------------------------------
(* the positions in all_words of the last word of every group but the last *)
GroupEnds(groups) ==
    {Len(Flatten(SubSeq(groups, 1, g))) : g \in 1..(Len(groups) - 1)}

(* word j ends in a full stop, a question mark or an exclamation mark, or
   more than 0.7 s pass before word j + 1 *)
BreakAfter(j) ==
    LET text == strip(all_words[j].word)
    IN  \/ Len(text) > 0 /\ Char(text, Len(text)) \in {".", "?", "!"}
        \/ all_words[j + 1].start - all_words[j].end > T(7, 10)

(* C24: the re-segmentation partitions the recognised words: the groups of
   the segments, in order, are the word sequence; no group is empty; a new
   segment starts exactly after a word ending in ".", "?" or "!" or after
   a gap above MAX_GAP_DURATION; the ids are 0..n-1 in order; every segment
   spans its group; total_filler_count is the sum of the lengths of the
   segments' filler_words. *)
C24_ResegmentationPartitions ==
    (returned # <<>> /\ all_words # <<>>) =>
        LET groups == returned[1].groups
            output == returned[1].output
        IN  /\ Flatten(groups) = all_words
            /\ \A g \in DOMAIN groups : groups[g] # <<>>
            /\ \A j \in 1..(Len(all_words) - 1) :
                    j \in GroupEnds(groups) <=> BreakAfter(j)
            /\ Len(output.segments) = Len(groups)
            /\ \A k \in DOMAIN output.segments :
                    /\ output.segments[k].id = k - 1
                    /\ output.segments[k].voice_start = round2(groups[k][1].start)
                    /\ output.segments[k].voice_end =
                           round2(groups[k][Len(groups[k])].end)
            /\ output.total_filler_count =
                   Len(Flatten([k \in DOMAIN output.segments |->
                                   output.segments[k].filler_words]))

(* three words were split into three segments, once after a question mark
   with a pause below 0.7 s and once by a pause alone, with a filler counted *)
C24_Witness ==
    /\ returned # <<>>
    /\ Len(all_words) = 3
    /\ Len(returned[1].output.segments) = 3
    /\ all_words[1].word = " why?"
    /\ all_words[2].start - all_words[1].end = T(625, 1000)
    /\ all_words[2].word = " um"
    /\ all_words[3].start - all_words[2].end = T(75, 100)
    /\ returned[1].output.total_filler_count = 1

-----------------------------------------------------------------------------
(* C25: every timing entry written by run_auto_analysis_stage_1 satisfies
   0 <= start_time < end_time <= total audio duration, the first entry
   starts at 0.0, and the end_time of an entry is at most the start_time of
   the next. *)
C25_TimingEntriesWellFormed ==
    (exists["timing"] /\ "total_duration" \in DOMAIN audio) =>
        \A n \in DOMAIN timing_file :
            /\ 0 <= timing_file[n].start_time
            /\ timing_file[n].start_time < timing_file[n].end_time
            /\ timing_file[n].end_time <= audio.total_duration
            /\ n = 1 => timing_file[n].start_time = 0
            /\ n < Len(timing_file) =>
                    timing_file[n].end_time <= timing_file[n + 1].start_time

=============================================================================
